---- MODULE Spec2Model ----
(***************************************************************************)
(* Model of minisam-react's async operation queue                          *)
(* (src/src/utils/async-queue.ts).                                         *)
(*                                                                         *)
(* JavaScript runs every synchronous stretch of code to completion, so one *)
(* action is one such stretch: a whole enqueue() call (purge, push and the *)
(* processQueue() call up to its first await), a whole clear() call, the   *)
(* settlement of the in-flight thunk's promise (the environment), and the  *)
(* resumption of processQueue() after its await up to the next await or    *)
(* its return.                                                             *)
(*                                                                         *)
(* A thunk is opaque to the queue: when invoked it either returns a        *)
(* promise, which the environment settles later, or throws at once.  A     *)
(* thunk that calls enqueue() or clear() from its own body finds           *)
(* isProcessing set and its item already shifted off the queue, so such a  *)
(* call acts as the same call made right after the thunk was started.      *)
(***************************************************************************)
EXTENDS Integers, Sequences, FiniteSets, TLC

\* Number of enqueue() calls explored.
MaxOps == 4
\* Number of distinct results / failure values a thunk can produce.
NumValues == 2

OpIds == 1..MaxOps
Values == 1..NumValues

(***************************************************************************)
(* Mask utilities (mask-utils.ts, src/unnamed/part_005).  A raster, be it  *)
(* an ImageData or the pixels of a canvas, is its width, its height and    *)
(* its bytes, row-major, four per pixel (R, G, B, A); data[i] of the code  *)
(* is data[i + 1] here.                                                    *)
(***************************************************************************)

\* Largest width and height of the rasters explored, and largest padding.
MaxW == 3
MaxH == 2
MaxPad == 2

Min(a, b) == IF a < b THEN a ELSE b
Max(a, b) == IF a > b THEN a ELSE b

\* pixels.data[i]
byte(r, i) == r.data[i + 1]

\* e, once v has been computed: a loop goes on from the value its earlier
\* iterations left, not from a computation still to be made.
Then(v, e) == IF v = v THEN e ELSE e

(***************************************************************************)
(* JavaScript numbers.  mask.width / image.width and x * scaleX are        *)
(* computed in IEEE-754 double precision: each operation gives the exact   *)
(* result rounded to 53 significant bits, ties to even.  A positive double *)
(* is (1 + f / 2^52) * 2^exp; its 52 fraction bits f are kept as four      *)
(* 13-bit digits l[1] .. l[4], most significant first.  The operands are   *)
(* sizes and coordinates of rasters, positive integers below 2^17.         *)
(***************************************************************************)

\* The base of the digits of a double's fraction: 2^13.
Limb == 8192

RECURSIVE Pow2(_)
Pow2(n) == IF n = 0 THEN 1 ELSE 2 * Pow2(n - 1)

\* The e with 2^e <= a / b < 2^(e + 1), for positive integers a and b.
Exponent(a, b) ==
    IF a >= b
    THEN CHOOSE e \in 0..17 : b * Pow2(e) <= a /\ a < b * Pow2(e + 1)
    ELSE -(CHOOSE k \in 1..17 : a * Pow2(k) >= b /\ a * Pow2(k - 1) < b)

\* The next digit of the expansion of r / d (r < d), and the remainder.
divStep(r, d) == [digit |-> (r * Limb) \div d, rem |-> (r * Limb) % d]

\* Round to nearest, ties to even: l and e are the first 53 bits of the
\* exact result, guard is its 54th bit, and sticky tells whether nonzero
\* bits follow.
round(l, e, guard, sticky) ==
    IF guard = 1 /\ (sticky \/ l[4] % 2 = 1)
    THEN IF \A i \in 1..4 : l[i] = Limb - 1
         THEN [l |-> [i \in 1..4 |-> 0], exp |-> e + 1]
         ELSE [l |-> [i \in 1..4 |->
                        IF \A j \in (i + 1)..4 : l[j] = Limb - 1
                        THEN (l[i] + 1) % Limb
                        ELSE l[i]],
               exp |-> e]
    ELSE [l |-> l, exp |-> e]

\* a / b in double precision, for positive integers a and b
fdiv(a, b) ==
    LET e == Exponent(a, b)
        n == IF e >= 0 THEN a ELSE a * Pow2(-e)
        d == IF e >= 0 THEN b * Pow2(e) ELSE b
        s1 == divStep(n - d, d)
        s2 == divStep(s1.rem, d)
        s3 == divStep(s2.rem, d)
        s4 == divStep(s3.rem, d)
        guard == IF 2 * s4.rem >= d THEN 1 ELSE 0
    IN  round(<<s1.digit, s2.digit, s3.digit, s4.digit>>, e, guard,
              2 * s4.rem - guard * d # 0)

\* x * s in double precision, for a positive integer x and a double s
fmul(x, s) ==
    LET v4 == x * s.l[4]
        v3 == x * s.l[3] + (v4 \div Limb)
        v2 == x * s.l[2] + (v3 \div Limb)
        v1 == x * s.l[1] + (v2 \div Limb)
        top == x + (v1 \div Limb)
        k == Exponent(top, 1)
        D == <<top % Pow2(k), v1 % Limb, v2 % Limb, v3 % Limb, v4 % Limb>>
        low == D[5] % Pow2(k)
    IN  round([i \in 1..4 |-> ((D[i] % Pow2(k)) * Limb + D[i + 1]) \div Pow2(k)],
              s.exp + k,
              IF k = 0 THEN 0 ELSE low \div Pow2(k - 1),
              k > 0 /\ low % Pow2(k - 1) # 0)

\* Math.floor(s) for a positive double s below 2^13
floor(s) == IF s.exp < 0 THEN 0 ELSE Pow2(s.exp) + (s.l[1] \div Pow2(13 - s.exp))

\* Math.floor(x * scale); 0 * scale is 0.
mapCoord(x, scale) == IF x = 0 THEN 0 ELSE floor(fmul(x, scale))

\* The raster of the given size whose content pixels are those in `content`
\* (pixel numbers, row-major).  Content alpha alternates between 255 and
\* the partial coverage 128; every pixel has its own colour bytes.
MakeRaster(w, h, content) ==
    [width |-> w, height |-> h,
     data |-> [k \in 1..(w * h * 4) |->
                 LET p == (k - 1) \div 4
                     c == (k - 1) % 4
                 IN  IF c = 3
                     THEN IF p \in content
                          THEN (IF ((p % w) + (p \div w)) % 2 = 1 THEN 128 ELSE 255)
                          ELSE 0
                     ELSE (3 * p + c + 1) % 256]]

NoRaster == [width |-> 0, height |-> 0, data |-> <<>>]

\* The 10x10 mask with the single opaque pixel (5,5).
SinglePixelMask == MakeRaster(10, 10, {5 * 10 + 5})

\* A 100x100 raster whose content is the square from (10,10) to (20,20).
SquareRaster ==
    MakeRaster(100, 100, {y * 100 + x : x \in 10..20, y \in 10..20})

\* The two rasters of the documented examples.
ExampleRasters == {SinglePixelMask, SquareRaster}

\* The result of getMaskBounds; found = FALSE is null.
NoBounds == [found |-> FALSE, left |-> 0, top |-> 0, right |-> 0, bottom |-> 0,
             width |-> 0, height |-> 0]

\* getMaskBounds with minX and minY starting at 0 instead of the size.
boundsStartZero(mask) == [minX |-> 0, minY |-> 0, maxX |-> -1, maxY |-> -1]

\* getMaskBounds: the initial minX, minY, maxX, maxY
boundsStart(mask) ==
    [minX |-> mask.width, minY |-> mask.height, maxX |-> -1, maxY |-> -1]

\* getMaskBounds: the body of the inner loop, at pixel (x, y)
boundsPixel(mask, y, x, acc) ==
    LET idx == (y * mask.width + x) * 4
    IN  IF byte(mask, idx + 3) > 0
        THEN [minX |-> Min(acc.minX, x), minY |-> Min(acc.minY, y),
              maxX |-> Max(acc.maxX, x), maxY |-> Max(acc.maxY, y)]
        ELSE acc

\* getMaskBounds: the inner loop, for x from lo up to hi - 1 in order
\* (the range is halved so that the evaluation stays shallow)
RECURSIVE boundsRow(_, _, _, _, _)
boundsRow(mask, y, lo, hi, acc) ==
    IF hi <= lo THEN acc
    ELSE IF hi = lo + 1 THEN boundsPixel(mask, y, lo, acc)
    ELSE LET mid == (lo + hi) \div 2
             first == boundsRow(mask, y, lo, mid, acc)
         IN  Then(first, boundsRow(mask, y, mid, hi, first))

\* getMaskBounds: the outer loop, for y from lo up to hi - 1 in order
RECURSIVE boundsRows(_, _, _, _)
boundsRows(mask, lo, hi, acc) ==
    IF hi <= lo THEN acc
    ELSE IF hi = lo + 1 THEN boundsRow(mask, lo, 0, mask.width, acc)
    ELSE LET mid == (lo + hi) \div 2
             first == boundsRows(mask, lo, mid, acc)
         IN  Then(first, boundsRows(mask, mid, hi, first))

\* getMaskBounds(mask)
getMaskBounds(mask) ==
    LET acc == boundsRows(mask, 0, mask.height, boundsStart(mask))
    IN  IF acc.maxX = -1
        THEN NoBounds
        ELSE [found |-> TRUE, left |-> acc.minX, top |-> acc.minY,
              right |-> acc.maxX, bottom |-> acc.maxY,
              width |-> acc.maxX - acc.minX + 1,
              height |-> acc.maxY - acc.minY + 1]

\* The `bound` object of trimCanvasToContent; Null is null.
Null == -1

\* A bound object that starts at 0 instead of null.
ZeroBound == [top |-> 0, left |-> 0, right |-> 0, bottom |-> 0]

NullBound == [top |-> Null, left |-> Null, right |-> Null, bottom |-> Null]

\* scanPixel that, like top, sets left only while it is null.
scanPixelFirstLeft(canvas, i, bound) ==
    IF byte(canvas, i + 3) # 0
    THEN LET x == (i \div 4) % canvas.width
             y == (i \div 4) \div canvas.width
         IN  [top |-> IF bound.top = Null THEN y ELSE bound.top,
              left |-> IF bound.left = Null THEN x ELSE bound.left,
              right |-> IF bound.right = Null THEN x
                        ELSE IF bound.right < x THEN x ELSE bound.right,
              bottom |-> IF bound.bottom = Null THEN y
                         ELSE IF bound.bottom < y THEN y ELSE bound.bottom]
    ELSE bound

\* trimCanvasToContent: one iteration of the "Find bounds" loop, at byte i
scanPixel(canvas, i, bound) ==
    IF byte(canvas, i + 3) # 0
    THEN LET x == (i \div 4) % canvas.width
             y == (i \div 4) \div canvas.width
         IN  [top |-> IF bound.top = Null THEN y ELSE bound.top,
              left |-> IF bound.left = Null THEN x
                       ELSE IF x < bound.left THEN x ELSE bound.left,
              right |-> IF bound.right = Null THEN x
                        ELSE IF bound.right < x THEN x ELSE bound.right,
              bottom |-> IF bound.bottom = Null THEN y
                         ELSE IF bound.bottom < y THEN y ELSE bound.bottom]
    ELSE bound

\* trimCanvasToContent: the "Find bounds" loop, for i = 4 * lo up to
\* 4 * (hi - 1) in order (the range is halved so that the evaluation stays
\* shallow)
RECURSIVE scanRange(_, _, _, _)
scanRange(canvas, lo, hi, bound) ==
    IF hi <= lo THEN bound
    ELSE IF hi = lo + 1 THEN scanPixel(canvas, 4 * lo, bound)
    ELSE LET mid == (lo + hi) \div 2
             first == scanRange(canvas, lo, mid, bound)
         IN  Then(first, scanRange(canvas, mid, hi, first))

\* trimCanvasToContent: the "Find bounds" loop over all of pixels.data
findBound(canvas) ==
    LET l == Len(canvas.data)
    IN  scanRange(canvas, 0, (l + 3) \div 4, NullBound)

\* padBound with the +1 of the trimmed size forgotten.
padBoundExclusive(bound, w, h, padding) ==
    LET top == Max(0, bound.top - padding)
        left == Max(0, bound.left - padding)
        right == Min(w - 1, bound.right + padding)
        bottom == Min(h - 1, bound.bottom + padding)
    IN  [top |-> top, left |-> left, right |-> right, bottom |-> bottom,
         trimWidth |-> right - left, trimHeight |-> bottom - top]

\* trimCanvasToContent: "Apply padding" and the trimmed size
padBound(bound, w, h, padding) ==
    LET top == Max(0, bound.top - padding)
        left == Max(0, bound.left - padding)
        right == Min(w - 1, bound.right + padding)
        bottom == Min(h - 1, bound.bottom + padding)
    IN  [top |-> top, left |-> left, right |-> right, bottom |-> bottom,
         trimWidth |-> right - left + 1, trimHeight |-> bottom - top + 1]

\* trimmedCtx.drawImage(canvas, sx, sy, w, h, 0, 0, w, h) on a new w x h canvas
drawImage(canvas, sx, sy, w, h) ==
    [width |-> w, height |-> h,
     data |-> [k \in 1..(w * h * 4) |->
                 LET p == (k - 1) \div 4
                     c == (k - 1) % 4
                     x == sx + (p % w)
                     y == sy + (p \div w)
                 IN  byte(canvas, (y * canvas.width + x) * 4 + c)]]

\* trimCanvasToContent(canvas, padding): the canvas returned, whether it is
\* the input canvas itself, the source corner the copy was taken from, and
\* top, left, right, bottom as the scan left them
trimCanvasToContent(canvas, padding) ==
    LET bound == findBound(canvas)
    IN  IF bound.top = Null \/ bound.left = Null
           \/ bound.right = Null \/ bound.bottom = Null
        THEN [same |-> TRUE, sx |-> 0, sy |-> 0, canvas |-> canvas,
              bound |-> bound]
        ELSE LET b == padBound(bound, canvas.width, canvas.height, padding)
             IN  [same |-> FALSE, sx |-> b.left, sy |-> b.top,
                  canvas |-> drawImage(canvas, b.left, b.top,
                                       b.trimWidth, b.trimHeight),
                  bound |-> bound]

\* What reading data[i] beyond the end of the array gives.
Undefined == -2

\* data[i], for any i
at(r, i) == IF i + 1 \in 1..Len(r.data) THEN r.data[i + 1] ELSE Undefined

\* A cutout that scales the image alpha by the mask alpha (soft matting).
maskedByteSoft(c, imageByte, maskAlpha) ==
    IF c = 3 THEN (imageByte * Max(0, maskAlpha)) \div 255 ELSE imageByte

\* applyMaskToImage: what the loop body leaves in byte c of a pixel whose
\* mapped mask pixel has alpha maskAlpha
maskedByte(c, imageByte, maskAlpha) ==
    IF c = 3 /\ maskAlpha = 0 THEN 0 ELSE imageByte

\* No call of applyMaskToImage yet.
NoApplied == [canvas |-> NoRaster, masked |-> NoRaster, maskX |-> <<>>,
              maskY |-> <<>>, mask |-> NoRaster]

\* applyMaskToImage(image, mask, {trimToContent, padding}); `image` is the
\* image as drawn on the result canvas.  The value holds the canvas
\* returned, the pixels put on the canvas before trimming, the mask
\* coordinates computed for each column and row (maskX[x + 1] for column
\* x), and the mask as the call leaves it.
applyMaskToImage(image, mask, trimToContent, padding) ==
    LET scaleX == fdiv(mask.width, image.width)
        scaleY == fdiv(mask.height, image.height)
        maskX == [x \in 1..image.width |-> mapCoord(x - 1, scaleX)]
        maskY == [y \in 1..image.height |-> mapCoord(y - 1, scaleY)]
        masked ==
            [width |-> image.width, height |-> image.height,
             data |-> [k \in 1..(image.width * image.height * 4) |->
                         LET p == (k - 1) \div 4
                             c == (k - 1) % 4
                             maskIdx == (maskY[(p \div image.width) + 1] * mask.width
                                           + maskX[(p % image.width) + 1]) * 4
                         IN  maskedByte(c, image.data[k], at(mask, maskIdx + 3))]]
    IN  Then(maskX, Then(maskY,
          [canvas |-> IF trimToContent
                      THEN trimCanvasToContent(masked, padding).canvas
                      ELSE masked,
           masked |-> masked, maskX |-> maskX, maskY |-> maskY, mask |-> mask]))

\* The overlay colours explored: hexToRgb's default, and red.
Colors == {[r |-> 99, g |-> 102, b |-> 241], [r |-> 255, g |-> 0, b |-> 0]}
NoColor == [r |-> 0, g |-> 0, b |-> 0]

\* An overlay drawn fully opaque wherever the mask has content.
overlayByteOpaque(c, alpha, color) ==
    IF alpha > 0
    THEN IF c = 0 THEN color.r ELSE IF c = 1 THEN color.g
         ELSE IF c = 2 THEN color.b ELSE 255
    ELSE 0

\* The overlay loop: byte c of a pixel whose mask alpha is alpha, in the
\* zero-filled ImageData
overlayByte(c, alpha, color) ==
    IF alpha > 0
    THEN IF c = 0 THEN color.r ELSE IF c = 1 THEN color.g
         ELSE IF c = 2 THEN color.b ELSE alpha
    ELSE 0

\* An overlay written into the mask's own data instead of a new ImageData.
overlayInPlace(maskData, color) ==
    LET drawn == [width |-> maskData.width, height |-> maskData.height,
                  data |-> [k \in 1..Len(maskData.data) |->
                              overlayByte((k - 1) % 4,
                                          maskData.data[k - ((k - 1) % 4) + 3],
                                          color)]]
    IN  [image |-> drawn, mask |-> drawn]

\* "Convert mask to colored overlay": the ImageData drawn on the mask
\* canvas, and the mask as the loop leaves it
overlay(maskData, color) ==
    [image |-> [width |-> maskData.width, height |-> maskData.height,
                data |-> [k \in 1..Len(maskData.data) |->
                            overlayByte((k - 1) % 4,
                                        maskData.data[k - ((k - 1) % 4) + 3],
                                        color)]],
     mask |-> maskData]

\* No raster in hand.
NoTrim == [same |-> FALSE, sx |-> 0, sy |-> 0, canvas |-> NoRaster,
           bound |-> NullBound]
NoGeo == [pc |-> "none", raster |-> NoRaster, padding |-> 0,
          bounds |-> NoBounds, trimmed |-> NoTrim, again |-> NoTrim,
          image |-> NoRaster,
          trim |-> FALSE, applied |-> NoApplied, color |-> NoColor,
          overlay |-> NoRaster]

(***************************************************************************)
(* The operation queue                                                     *)
(***************************************************************************)

\* The two Error messages the queue creates itself.
CancelledMsg == "Operation cancelled by newer request"
ClearedMsg == "Queue cleared"

\* A thunk handed to enqueue(): it either returns a promise that settles
\* later ("async") or throws val synchronously when invoked ("throw").
Thunks == [mode : {"async"}, val : {0}] \cup [mode : {"throw"}, val : Values]
NoThunk == [mode |-> "none", val |-> 0]

\* What a thunk's execution produced.
Outcomes == [tag : {"value", "failure"}, val : Values]
NoOutcome == [tag |-> "none", val |-> 0]

\* The promise returned by enqueue().
Unborn == [state |-> "none", tag |-> "none", val |-> 0]
Pending == [state |-> "pending", tag |-> "none", val |-> 0]
Fulfilled(v) == [state |-> "fulfilled", tag |-> "value", val |-> v]
Rejected(tag, v) == [state |-> "rejected", tag |-> tag, val |-> v]

\* The Error the hooks throw themselves.
NoImageMsg == "No image loaded"

\* The thunk the hooks enqueue: () => sessionRef.current!.segment(image),
\* a call that returns a promise.
SegmentThunk == [mode |-> "async", val |-> 0]

\* A session.segment call awaited directly, not settled yet.
Running == [tag |-> "running", val |-> 0]

\* How the last call of the hook's API ended: the error it threw itself or
\* handed to onError outside the segmentation calls, if any, and for
\* initialize() the promise it returned: "started" for the promise of a new
\* attempt, "stored" for initPromiseRef.current, "none" for no promise of an
\* attempt.
NoResult == [by |-> "none", err |-> "none", ret |-> "none"]

Kinds == {"useMiniSam", "useTinySam"}

\* No hook mounted.  mask 0 is null; clicks and sessionClicks are the lengths
\* of the clicks state and of the session's click list.  initializing is
\* initPromiseRef.current being set.  maskBy is the segmentation whose result
\* the mask is (0: none), seen the length of the session's click list at the
\* latest call of session.segment (Null: no call yet), jobs the handler calls
\* whose awaited promise has settled, in the order the host will run them on,
\* and firstAdd the first segmentation of the addClick calls made since the
\* last call of another kind (0: none).
NoHook == [kind |-> "none", isInitialized |-> FALSE, initializing |-> FALSE,
           loading |-> FALSE, isLoading |-> FALSE, image |-> FALSE,
           session |-> FALSE, clicks |-> 0, sessionClicks |-> 0, mask |-> 0,
           maskBy |-> 0,
           caller |-> [i \in OpIds |-> "none"],
           direct |-> [i \in OpIds |-> NoOutcome],
           seen |-> Null,
           jobs |-> <<>>, firstAdd |-> 0,
           reported |-> [i \in OpIds |-> "none"], result |-> NoResult]

VARIABLES
    queue,          \* const queue: QueueItem[]  (ids of the queued items)
    isProcessing,   \* let isProcessing
    item,           \* processQueue's local `item` while suspended at await; 0 = not suspended
    operation,      \* operation[id]: the thunk of item id
    run,            \* run[id]: "unset" | "notStarted" | "running" | "settled"
    outcome,        \* outcome[id]: what the thunk's execution produced
    future,         \* future[id]: the promise enqueue() returned for item id
    calls,          \* calls[id]: how many times item.operation() was invoked
    settles,        \* settles[id]: how many times item.resolve / item.reject was called
    nextId,         \* id the next enqueue() call gets
    burst,          \* TRUE while every step so far was an enqueue() call
    observed,       \* what the last read of an accessor returned
    geo,            \* the mask utilities: the raster in hand and what was computed from it
    hook            \* one mounted useMiniSam / useTinySam instance: its state and refs

vars == <<queue, isProcessing, item, operation, run, outcome, future, calls,
          settles, nextId, burst, observed, geo, hook>>

\* The variables the queue's own operations leave alone.
others == <<observed, geo, hook>>

\* No accessor has been read yet.
NoRead == [get |-> "none", num |-> 0, flag |-> FALSE]

\* The queue's state as one record, for the helper operators.
State == [queue |-> queue, isProcessing |-> isProcessing, item |-> item,
          operation |-> operation, run |-> run, outcome |-> outcome,
          future |-> future, calls |-> calls, settles |-> settles]

\* item.resolve(value): a promise keeps its first settlement.
resolve(s, id, v) ==
    [s EXCEPT !.settles[id] = @ + 1,
              !.future[id] = IF @.state = "pending" THEN Fulfilled(v) ELSE @]

\* item.reject(error)
reject(s, id, tag, v) ==
    [s EXCEPT !.settles[id] = @ + 1,
              !.future[id] = IF @.state = "pending" THEN Rejected(tag, v) ELSE @]

\* queue.shift()
shift(s) == [s EXCEPT !.queue = Tail(@)]

\* processLoop with the `isProcessing = false` after the loop forgotten.
RECURSIVE processLoopStuck(_)
processLoopStuck(s) ==
    IF Len(s.queue) > 0
    THEN LET id == Head(s.queue)
             started == [shift(s) EXCEPT !.calls[id] = @ + 1]
         IN  IF s.operation[id].mode = "throw"
             THEN processLoopStuck(reject(
                      [started EXCEPT !.run[id] = "settled",
                                      !.outcome[id] = [tag |-> "failure",
                                                       val |-> s.operation[id].val]],
                      id, "failure", s.operation[id].val))
             ELSE [started EXCEPT !.run[id] = "running", !.item = id]
    ELSE s

\* The while loop of processQueue, run until it suspends at an await or
\* leaves the loop and clears the active flag.
RECURSIVE processLoop(_)
processLoop(s) ==
    IF Len(s.queue) > 0
    THEN LET id == Head(s.queue)
             t == shift(s)
             started == [t EXCEPT !.calls[id] = @ + 1]
         IN  IF s.operation[id].mode = "throw"
             THEN \* item.operation() throws: caught, item.reject(error), next iteration
                  processLoop(reject(
                      [started EXCEPT !.run[id] = "settled",
                                      !.outcome[id] = [tag |-> "failure",
                                                       val |-> s.operation[id].val]],
                      id, "failure", s.operation[id].val))
             ELSE \* suspended at `await item.operation()`
                  [started EXCEPT !.run[id] = "running", !.item = id]
    ELSE [s EXCEPT !.isProcessing = FALSE]

\* processQueue without the isProcessing re-entry guard.
processQueueNoGuard(s) ==
    IF Len(s.queue) = 0
    THEN s
    ELSE processLoop([s EXCEPT !.isProcessing = TRUE])

\* processQueue(), from its entry
processQueue(s) ==
    IF s.isProcessing \/ Len(s.queue) = 0
    THEN s
    ELSE processLoop([s EXCEPT !.isProcessing = TRUE])

\* purge that drops the pending operations and leaves their rejection
\* to a later turn of the event loop.
purgeSilent(s) == [s EXCEPT !.queue = <<>>]

\* The purge loop of enqueue
RECURSIVE purge(_)
purge(s) ==
    IF Len(s.queue) > 0
    THEN purge(reject(shift(s), Head(s.queue), CancelledMsg, 0))
    ELSE s

\* enqueue that appends without purging the pending operations.
enqueueNoPurge(s, id, thunk) ==
    processQueue([s EXCEPT !.operation[id] = thunk,
                           !.run[id] = "notStarted",
                           !.future[id] = Pending,
                           !.queue = Append(@, id)])

\* enqueue that rejects the pending operations but leaves them queued.
RECURSIVE rejectEach(_, _)
rejectEach(s, k) ==
    IF k > Len(s.queue)
    THEN s
    ELSE rejectEach(reject(s, s.queue[k], CancelledMsg, 0), k + 1)

enqueueNoRemove(s, id, thunk) ==
    LET born == [s EXCEPT !.operation[id] = thunk,
                          !.run[id] = "notStarted",
                          !.future[id] = Pending]
        pushed == [rejectEach(born, 1) EXCEPT !.queue = Append(@, id)]
    IN  processQueue(pushed)

\* enqueue(operation): the promise executor
enqueue(s, id, thunk) ==
    LET born == [s EXCEPT !.operation[id] = thunk,
                          !.run[id] = "notStarted",
                          !.future[id] = Pending]
        purged == purge(born)
        pushed == [purged EXCEPT !.queue = Append(@, id)]
    IN  processQueue(pushed)

\* clear that rejects the pending operations but leaves them queued.
RECURSIVE clearEach(_, _)
clearEach(s, k) ==
    IF k > Len(s.queue)
    THEN s
    ELSE clearEach(reject(s, s.queue[k], ClearedMsg, 0), k + 1)

clearNoShift(s) == clearEach(s, 1)

\* clear that also rejects the operation in flight.
clearInFlight(s) ==
    LET t == [clearEach(s, 1) EXCEPT !.queue = <<>>]
    IN  IF s.item # 0 THEN reject(t, s.item, ClearedMsg, 0) ELSE t

\* clear that empties the queue without rejecting anything.
clearDrop(s) == [s EXCEPT !.queue = <<>>]

\* clear that rejects with the supersession message.
clearAsCancelled(s) == purge(s)

\* clear()
RECURSIVE clear(_)
clear(s) ==
    IF Len(s.queue) > 0
    THEN clear(reject(shift(s), Head(s.queue), ClearedMsg, 0))
    ELSE s

\* resume with an empty catch block: a thunk failure is swallowed.
resumeSwallow(s) ==
    LET id == s.item
        o == s.outcome[id]
        settled == IF o.tag = "value" THEN resolve(s, id, o.val) ELSE s
    IN  processLoop([settled EXCEPT !.item = 0])

\* resume that settles the item and returns instead of looping on.
resumeNoLoop(s) ==
    LET id == s.item
        o == s.outcome[id]
        settled == IF o.tag = "value"
                   THEN resolve(s, id, o.val)
                   ELSE reject(s, id, "failure", o.val)
    IN  [settled EXCEPT !.item = 0, !.isProcessing = (Len(s.queue) > 0)]

\* resume that settles the item, clears the active flag and returns.
resumeStop(s) ==
    LET id == s.item
        o == s.outcome[id]
        settled == IF o.tag = "value"
                   THEN resolve(s, id, o.val)
                   ELSE reject(s, id, "failure", o.val)
    IN  [settled EXCEPT !.item = 0, !.isProcessing = FALSE]

\* The continuation of processQueue after `await item.operation()`
resume(s) ==
    LET id == s.item
        o == s.outcome[id]
        settled == IF o.tag = "value"
                   THEN resolve(s, id, o.val)
                   ELSE reject(s, id, "failure", o.val)
    IN  processLoop([settled EXCEPT !.item = 0])

\* get queueLength()
queueLength == Len(queue)

\* An accessor that empties what it reads.
readQueueLengthDrain(s) == [ret |-> Len(s.queue), st |-> [s EXCEPT !.queue = <<>>]]

\* get queueLength(), as a call: the value returned and the state left
readQueueLength(s) == [ret |-> Len(s.queue), st |-> s]

\* get isProcessing(), as a call: the value returned and the state left
readIsProcessing(s) == [ret |-> s.isProcessing, st |-> s]

Install(s) ==
    /\ queue' = s.queue
    /\ isProcessing' = s.isProcessing
    /\ item' = s.item
    /\ operation' = s.operation
    /\ run' = s.run
    /\ outcome' = s.outcome
    /\ future' = s.future
    /\ calls' = s.calls
    /\ settles' = s.settles

\* createAsyncOperationQueue()
Init ==
    /\ queue = <<>>
    /\ isProcessing = FALSE
    /\ item = 0
    /\ operation = [i \in OpIds |-> NoThunk]
    /\ run = [i \in OpIds |-> "unset"]
    /\ outcome = [i \in OpIds |-> NoOutcome]
    /\ future = [i \in OpIds |-> Unborn]
    /\ calls = [i \in OpIds |-> 0]
    /\ settles = [i \in OpIds |-> 0]
    /\ nextId = 1
    /\ burst = TRUE
    /\ observed = NoRead
    /\ geo = NoGeo
    /\ hook = NoHook

\* A caller calls enqueue(thunk).
Enqueue(thunk) ==
    /\ nextId <= MaxOps
    /\ Install(enqueue(State, nextId, thunk))
    /\ nextId' = nextId + 1
    /\ UNCHANGED <<burst, others>>

\* A caller calls clear().
Clear ==
    /\ Install(clear(State))
    /\ burst' = FALSE
    /\ UNCHANGED <<nextId, others>>

\* The promise returned by the in-flight thunk settles with outcome o.
ThunkSettle(o) ==
    /\ item # 0
    /\ run[item] = "running"
    /\ run' = [run EXCEPT ![item] = "settled"]
    /\ outcome' = [outcome EXCEPT ![item] = o]
    /\ burst' = FALSE
    /\ UNCHANGED <<queue, isProcessing, item, operation, future, calls,
                   settles, nextId, others>>

\* processQueue resumes after its await.
Resume ==
    /\ item # 0
    /\ run[item] = "settled"
    /\ Install(resume(State))
    /\ burst' = FALSE
    /\ UNCHANGED <<nextId, others>>

EnqueueAny == \E thunk \in Thunks : Enqueue(thunk)
ThunkSettleAny == \E o \in Outcomes : ThunkSettle(o)

Next == EnqueueAny \/ Clear \/ ThunkSettleAny \/ Resume

Spec == Init /\ [][Next]_vars

\* The same queue under the scheduling JavaScript guarantees: a settled
\* promise's continuation is run (Resume), and, as the assumption of the
\* termination property, every started thunk settles (ThunkSettle).  The
\* liveness check explores fewer calls and one value per outcome kind.
LiveOps == 3
LiveThunks == {th \in Thunks : th.val <= 1}
LiveOutcomes == {o \in Outcomes : o.val = 1}

LiveEnqueue == nextId <= LiveOps /\ \E thunk \in LiveThunks : Enqueue(thunk)
LiveThunkSettle == \E o \in LiveOutcomes : ThunkSettle(o)

FairNext == LiveEnqueue \/ Clear \/ LiveThunkSettle \/ Resume

FairSpec ==
    /\ Init
    /\ [][FairNext]_vars
    /\ WF_vars(LiveThunkSettle)
    /\ WF_vars(Resume)

\* A caller reads queue.queueLength.
ReadQueueLength ==
    LET r == readQueueLength(State)
    IN  /\ Install(r.st)
        /\ observed' = [get |-> "queueLength", num |-> r.ret, flag |-> FALSE]
        /\ UNCHANGED <<nextId, burst, geo, hook>>

\* A caller reads queue.isProcessing.
ReadIsProcessing ==
    LET r == readIsProcessing(State)
    IN  /\ Install(r.st)
        /\ observed' = [get |-> "isProcessing", num |-> 0, flag |-> r.ret]
        /\ UNCHANGED <<nextId, burst, geo, hook>>

\* The queue with callers that also read its accessors between calls.
ObsOps == 3
ObsEnqueue == nextId <= ObsOps /\ EnqueueAny

ObsNext ==
    \/ ObsEnqueue
    \/ Clear
    \/ ThunkSettleAny
    \/ Resume
    \/ ReadQueueLength
    \/ ReadIsProcessing

ObsSpec == Init /\ [][ObsNext]_vars

\* The variables of the queue, which the mask utilities leave alone.
queueVars == <<queue, isProcessing, item, operation, run, outcome, future,
               calls, settles, nextId, burst, observed, hook>>

\* A caller has a raster in hand.
GeoLoad ==
    /\ geo.pc = "none"
    /\ \/ \E w \in 1..MaxW, h \in 1..MaxH :
             \E content \in SUBSET (0..(w * h - 1)) :
                geo' = [NoGeo EXCEPT !.pc = "loaded",
                                     !.raster = MakeRaster(w, h, content)]
       \/ \E r \in ExampleRasters :
             geo' = [NoGeo EXCEPT !.pc = "loaded", !.raster = r]
    /\ UNCHANGED queueVars

\* A caller calls getMaskBounds(mask).
GetMaskBounds ==
    /\ geo.pc = "loaded"
    /\ geo' = [geo EXCEPT !.pc = "bounds", !.bounds = getMaskBounds(geo.raster)]
    /\ UNCHANGED queueVars

\* A caller calls trimCanvasToContent(canvas, padding).
TrimCanvasToContent ==
    /\ geo.pc = "loaded"
    /\ \E padding \in 0..MaxPad :
          geo' = [geo EXCEPT !.pc = "trimmed", !.padding = padding,
                             !.trimmed = trimCanvasToContent(geo.raster, padding)]
    /\ UNCHANGED queueVars

\* The caller trims the canvas it got back once more, with the same padding.
TrimAgain ==
    /\ geo.pc = "trimmed"
    /\ geo' = [geo EXCEPT !.pc = "retrimmed",
                          !.again = trimCanvasToContent(geo.trimmed.canvas,
                                                        geo.padding)]
    /\ UNCHANGED queueVars

GeoNext == GeoLoad \/ GetMaskBounds \/ TrimCanvasToContent \/ TrimAgain

\* The mask utilities applied to every raster explored.
GeoSpec == Init /\ [][GeoNext]_vars

\* Largest width and height of the masks and images that applyMaskToImage
\* and the overlay are applied to.
ApplyW == 2
ApplyH == 2

\* An image 22 wide drawn on the canvas and a mask 30 wide for it.
WideImage == MakeRaster(22, 1, 0..21)
WideMask == MakeRaster(30, 1, {14, 29})

\* A caller has a mask in hand.
ApplyLoad ==
    /\ geo.pc = "none"
    /\ \/ \E w \in 1..ApplyW, h \in 1..ApplyH :
             \E content \in SUBSET (0..(w * h - 1)) :
                geo' = [NoGeo EXCEPT !.pc = "loaded",
                                     !.raster = MakeRaster(w, h, content)]
       \/ geo' = [NoGeo EXCEPT !.pc = "loaded", !.raster = WideMask]
    /\ UNCHANGED queueVars

\* The caller has an image for the mask: fully opaque, or with transparent
\* pixels of its own.
ApplyLoadImage ==
    /\ geo.pc = "loaded"
    /\ \/ \E w \in 1..ApplyW, h \in 1..ApplyH :
             \E content \in {0..(w * h - 1), {p \in 0..(w * h - 1) : p % 2 = 0}} :
                geo' = [geo EXCEPT !.pc = "pair",
                                   !.image = MakeRaster(w, h, content)]
       \/ geo' = [geo EXCEPT !.pc = "pair", !.image = WideImage]
    /\ UNCHANGED queueVars

\* A caller calls applyMaskToImage(image, mask, options).
ApplyMaskToImage(trimToContent, padding) ==
    /\ geo.pc = "pair"
    /\ LET r == applyMaskToImage(geo.image, geo.raster, trimToContent, padding)
       IN  geo' = [geo EXCEPT !.pc = "applied", !.trim = trimToContent,
                              !.padding = padding, !.applied = r,
                              !.raster = r.mask]
    /\ UNCHANGED queueVars

\* A segmenter component draws the mask as a coloured overlay.
Overlay(color) ==
    /\ geo.pc = "loaded"
    /\ LET r == overlay(geo.raster, color)
       IN  geo' = [geo EXCEPT !.pc = "overlay", !.color = color,
                              !.overlay = r.image, !.raster = r.mask]
    /\ UNCHANGED queueVars

ApplyMaskToImageAny ==
    \/ ApplyMaskToImage(FALSE, 0)
    \/ \E padding \in 0..MaxPad : ApplyMaskToImage(TRUE, padding)
OverlayAny == \E color \in Colors : Overlay(color)

ApplyNext ==
    \/ ApplyLoad
    \/ ApplyLoadImage
    \/ GetMaskBounds
    \/ ApplyMaskToImageAny
    \/ OverlayAny

\* The mask utilities that take a mask and an image, and the overlay,
\* applied to every mask and image explored.
ApplySpec == Init /\ [][ApplyNext]_vars

(***************************************************************************)
(* The React hooks: useMiniSam and useTinySam                              *)
(***************************************************************************)

\* Calls one hook instance makes to session.segment, through the queue
\* (useMiniSam) or directly (useTinySam), and the longest click list handed
\* to segmentWithClicks.
UiOps == 3
TinyOps == 2
MaxClicks == 2

\* The value a handler call leaves: the hook's state, the queue's state, and
\* whether it started a segmentation (which takes the next id).
Ended(h, s) == [hook |-> h, st |-> s, took |-> FALSE]

\* setIsLoading(true) and the awaited expression of the try block:
\* asyncQueueRef.current.enqueue(() => session.segment(image)) in useMiniSam,
\* session.segment(image) itself in useTinySam.
callSegment(h, s, id) ==
    LET waiting == [h EXCEPT !.isLoading = TRUE, !.caller[id] = "awaiting"]
    IN  IF h.kind = "useMiniSam"
        THEN [hook |-> waiting, st |-> enqueue(s, id, SegmentThunk), took |-> TRUE]
        ELSE [hook |-> [waiting EXCEPT !.direct[id] = Running,
                                       !.seen = h.sessionClicks],
              st |-> s, took |-> TRUE]

\* addClick without the image / session check.
addClickNoGuard(h, s, id) ==
    callSegment([h EXCEPT !.clicks = @ + 1, !.sessionClicks = @ + 1,
                          !.firstAdd = IF @ = 0 THEN id ELSE @,
                          !.result = [by |-> "addClick", err |-> "none", ret |-> "none"]],
                s, id)

\* addClick(x, y, type), up to its await
addClick(h, s, id) ==
    IF ~h.image \/ ~h.session
    THEN Ended([h EXCEPT !.result = [by |-> "addClick", err |-> NoImageMsg, ret |-> "none"]], s)
    ELSE callSegment([h EXCEPT !.clicks = @ + 1, !.sessionClicks = @ + 1,
                               !.firstAdd = IF @ = 0 THEN id ELSE @,
                               !.result = [by |-> "addClick", err |-> "none", ret |-> "none"]],
                     s, id)

\* removeLastClick that segments again whatever is left.
removeLastClickAlways(h, s, id) ==
    IF ~h.image \/ ~h.session \/ h.clicks = 0
    THEN Ended([h EXCEPT !.firstAdd = 0,
                         !.result = [by |-> "removeLastClick",
                                     err |-> "none", ret |-> "none"]], s)
    ELSE callSegment([h EXCEPT !.sessionClicks = Max(0, @ - 1),
                               !.clicks = @ - 1, !.firstAdd = 0,
                               !.result = [by |-> "removeLastClick",
                                           err |-> "none", ret |-> "none"]],
                     s, id)

\* removeLastClick(), up to its await
removeLastClick(h, s, id) ==
    LET called == [h EXCEPT !.firstAdd = 0,
                            !.result = [by |-> "removeLastClick",
                                        err |-> "none", ret |-> "none"]]
        popped == [called EXCEPT !.sessionClicks = Max(0, @ - 1),
                                 !.clicks = @ - 1]
    IN  IF ~h.image \/ ~h.session \/ h.clicks = 0
        THEN Ended(called, s)
        ELSE IF h.clicks > 1
             THEN callSegment(popped, s, id)
             ELSE Ended([popped EXCEPT !.mask = 0, !.maskBy = 0], s)

\* reset()
reset(h, s) ==
    Ended([h EXCEPT !.sessionClicks = IF h.session THEN 0 ELSE @,
                    !.clicks = 0, !.mask = 0, !.maskBy = 0, !.firstAdd = 0,
                    !.result = [by |-> "reset", err |-> "none", ret |-> "none"]], s)

\* segment(), up to its await
segment(h, s, id) ==
    LET called == [h EXCEPT !.firstAdd = 0,
                            !.result = [by |-> "segment", err |-> "none",
                                        ret |-> "none"]]
    IN  IF ~h.image \/ ~h.session \/ h.clicks = 0
        THEN Ended(called, s)
        ELSE callSegment(called, s, id)

\* segmentWithClicks(newClicks), up to its await; n = newClicks.length
segmentWithClicks(h, s, id, n) ==
    LET applied == [h EXCEPT !.sessionClicks = n, !.clicks = n,
                             !.firstAdd = 0,
                             !.result = [by |-> "segmentWithClicks",
                                         err |-> "none", ret |-> "none"]]
    IN  IF ~h.image \/ ~h.session
        THEN Ended([h EXCEPT !.firstAdd = 0,
                             !.result = [by |-> "segmentWithClicks",
                                         err |-> NoImageMsg, ret |-> "none"]], s)
        ELSE IF n = 0
             THEN Ended([applied EXCEPT !.mask = 0, !.maskBy = 0], s)
             ELSE callSegment(applied, s, id)

\* The promise a suspended handler call awaits.
awaited(h, s, id) ==
    IF h.kind = "useMiniSam"
    THEN s.future[id]
    ELSE IF h.direct[id].tag = "value" THEN Fulfilled(h.direct[id].val)
         ELSE IF h.direct[id].tag = "failure"
              THEN Rejected("failure", h.direct[id].val)
              ELSE Pending

\* The rest of a handler call once the awaited promise has settled:
\* setMask on a value; the catch block and its onError call on a rejection;
\* the finally block either way.
continuation(h, id, p) ==
    IF p.state = "fulfilled"
    THEN [h EXCEPT !.mask = p.val, !.maskBy = id, !.isLoading = FALSE,
                   !.caller[id] = "done"]
    ELSE [h EXCEPT !.reported[id] = p.tag, !.isLoading = FALSE,
                   !.caller[id] = "done"]

\* The ids of S in ascending order.
RECURSIVE Ascending(_)
Ascending(S) ==
    IF S = {} THEN <<>>
    ELSE LET m == CHOOSE i \in S : \A j \in S : i <= j
         IN  <<m>> \o Ascending(S \ {m})

\* What a step that left the queue in state s means to the handler calls:
\* a call whose awaited promise has just settled is scheduled to run on,
\* behind the calls already scheduled.
schedule(h, s) ==
    LET settled == {i \in OpIds : /\ h.caller[i] = "awaiting"
                                  /\ awaited(h, s, i).state # "pending"
                                  /\ \A k \in 1..Len(h.jobs) : h.jobs[k] # i}
    IN  [h EXCEPT !.jobs = @ \o Ascending(settled)]

\* The thunk () => sessionRef.current!.segment(image), invoked in a step
\* that took the queue from state s to state t, reads the session then.
invoked(h, s, t) ==
    IF \E i \in OpIds : t.calls[i] > s.calls[i]
    THEN [h EXCEPT !.seen = h.sessionClicks]
    ELSE h

\* A handler call takes its step: the queue and the hook move together.
Handle(r) ==
    /\ Install(r.st)
    /\ hook' = schedule(invoked(r.hook, State, r.st), r.st)
    /\ nextId' = IF r.took THEN nextId + 1 ELSE nextId
    /\ burst' = FALSE
    /\ UNCHANGED <<observed, geo>>

\* Only the hook moves.
HookOnly(h) ==
    /\ hook' = h
    /\ burst' = FALSE
    /\ UNCHANGED <<queue, isProcessing, item, operation, run, outcome, future,
                   calls, settles, nextId, observed, geo>>

Mounted ==
    /\ hook.kind # "none"
    /\ nextId <= (IF hook.kind = "useMiniSam" THEN UiOps ELSE TinyOps)

\* initialize() that starts an attempt whatever initPromiseRef holds.
initializeNoReuse(h) ==
    IF h.isInitialized
    THEN [h EXCEPT !.result = [by |-> "initialize", err |-> "none", ret |-> "none"]]
    ELSE [h EXCEPT !.initializing = TRUE, !.isLoading = TRUE,
                   !.result = [by |-> "initialize", err |-> "none", ret |-> "started"]]

\* initialize(), up to `await initSegmentation()`
initialize(h) ==
    IF h.isInitialized
    THEN [h EXCEPT !.result = [by |-> "initialize", err |-> "none", ret |-> "none"]]
    ELSE IF h.initializing
         THEN [h EXCEPT !.result = [by |-> "initialize", err |-> "none", ret |-> "stored"]]
         ELSE [h EXCEPT !.initializing = TRUE, !.isLoading = TRUE,
                        !.result = [by |-> "initialize", err |-> "none", ret |-> "started"]]

\* A component mounts the hook; the autoInit effect calls initialize().
Mount(kind) ==
    /\ hook.kind = "none"
    /\ HookOnly(initialize([NoHook EXCEPT !.kind = kind]))

\* The component calls initialize() itself, before it loads an image.
Initialize ==
    /\ hook.kind # "none"
    /\ ~hook.image
    /\ HookOnly(initialize(hook))

\* initSegmentation() settles and initialize() runs on.
InitializeEnd(ok) ==
    /\ hook.initializing
    /\ HookOnly([hook EXCEPT !.initializing = FALSE, !.isLoading = FALSE,
                             !.isInitialized = ok,
                             !.result = [by |-> "initialize",
                                         err |-> IF ok THEN "none"
                                                 ELSE "failure", ret |-> "none"]])

\* loadImage(img) on an initialized hook, up to `await precomputeEmbedding`.
LoadImageBegin ==
    /\ hook.isInitialized
    /\ ~hook.loading
    /\ HookOnly([hook EXCEPT !.loading = TRUE, !.isLoading = TRUE,
                             !.image = TRUE, !.clicks = 0, !.mask = 0,
                             !.maskBy = 0, !.firstAdd = 0])

\* precomputeEmbedding settles and loadImage runs on.
LoadImageEnd(ok) ==
    /\ hook.loading
    /\ HookOnly([hook EXCEPT !.loading = FALSE, !.isLoading = FALSE,
                             !.session = IF ok THEN TRUE ELSE @,
                             !.sessionClicks = IF ok THEN 0 ELSE @,
                             !.firstAdd = 0,
                             !.result = [by |-> "loadImage",
                                         err |-> IF ok THEN "none"
                                                 ELSE "failure", ret |-> "none"]])

AddClick == Mounted /\ Handle(addClick(hook, State, nextId))
RemoveLastClick == Mounted /\ Handle(removeLastClick(hook, State, nextId))
Reset == Mounted /\ Handle(reset(hook, State))
Segment == Mounted /\ Handle(segment(hook, State, nextId))
SegmentWithClicks(n) == Mounted /\ Handle(segmentWithClicks(hook, State, nextId, n))

\* A session.segment call that useTinySam awaits directly settles.
DirectSettle(id, o) ==
    /\ hook.direct[id] = Running
    /\ HookOnly(schedule([hook EXCEPT !.direct[id] = o], State))

\* A handler call suspended at its await runs on, the one whose promise
\* settled first.
CallerResume(id) ==
    /\ hook.jobs # <<>>
    /\ Head(hook.jobs) = id
    /\ HookOnly(continuation([hook EXCEPT !.jobs = Tail(@)], id,
                              awaited(hook, State, id)))

\* processQueue resumes after its await, under a hook.
UiResume ==
    /\ item # 0
    /\ run[item] = "settled"
    /\ Install(resume(State))
    /\ hook' = schedule(invoked(hook, State, resume(State)), resume(State))
    /\ burst' = FALSE
    /\ UNCHANGED <<nextId, observed, geo>>

MountAny == \E kind \in Kinds : Mount(kind)
InitializeEndAny == \E ok \in BOOLEAN : InitializeEnd(ok)
LoadImageEndAny == \E ok \in BOOLEAN : LoadImageEnd(ok)
SegmentWithClicksAny == \E n \in 0..MaxClicks : SegmentWithClicks(n)
DirectSettleAny == \E id \in OpIds, o \in LiveOutcomes : DirectSettle(id, o)
CallerResumeAny == \E id \in OpIds : CallerResume(id)

UiNext ==
    \/ MountAny
    \/ Initialize
    \/ InitializeEndAny
    \/ LoadImageBegin
    \/ LoadImageEndAny
    \/ AddClick
    \/ RemoveLastClick
    \/ Reset
    \/ Segment
    \/ SegmentWithClicksAny
    \/ LiveThunkSettle
    \/ UiResume
    \/ DirectSettleAny
    \/ CallerResumeAny

\* One hook instance with its user, its queue and its session; a
\* segmentation settles with one value or one failure.
UiSpec == Init /\ [][UiNext]_vars

(***************************************************************************)
(* Properties                                                              *)
(***************************************************************************)

Enqueued(i) == i < nextId
Settled(i) == future[i].state \in {"fulfilled", "rejected"}
Discarded(i) == future[i].tag \in {CancelledMsg, ClearedMsg}
InSeq(i, q) == \E k \in 1..Len(q) : q[k] = i
\* The settlement a thunk outcome gives the future of its own operation.
FutureOf(o) == IF o.tag = "value" THEN Fulfilled(o.val) ELSE Rejected("failure", o.val)
EnqueueStep == nextId' = nextId + 1

\* C1: in every reachable state at most one thunk has been started and has
\* not yet settled.
C1_AtMostOneExecuting ==
    Cardinality({i \in OpIds : run[i] = "running"}) <= 1

\* Calls arrived while a thunk runs: one was superseded, one is pending.
C1_Witness ==
    \E i, j \in OpIds :
        /\ run[i] = "running"
        /\ future[j].tag = CancelledMsg
        /\ Len(queue) > 0

\* C2: after a burst of n >= 2 enqueue() calls on a fresh queue, each with
\* a thunk returning a promise, every operation but the last was rejected
\* as Cancelled without its thunk having been invoked.
C2_OnlyLastRuns ==
    (burst /\ nextId > 2 /\ \A i \in 1..(nextId - 1) : operation[i].mode = "async") =>
        \A i \in 1..(nextId - 2) :
            /\ future[i] = Rejected(CancelledMsg, 0)
            /\ calls[i] = 0

\* C3: an enqueue() call rejects as Cancelled and removes every operation
\* that was pending when it began, and leaves nothing older than the new
\* operation in the pending sequence; no operation ever leaves the pending
\* sequence without being started or having its future settled.
C3_PurgeThenAppend ==
    /\ [](\A i \in OpIds : Enqueued(i) => InSeq(i, queue) \/ calls[i] > 0 \/ Settled(i))
    /\ [][EnqueueStep =>
            /\ \A k \in 1..Len(queue) :
                  /\ future'[queue[k]] = Rejected(CancelledMsg, 0)
                  /\ ~InSeq(queue[k], queue')
            /\ \A k \in 1..Len(queue') : queue'[k] = nextId
            /\ InSeq(nextId, queue') \/ calls'[nextId] = 1]_vars

\* An enqueue() superseded a pending operation and its own is now pending.
C3_Witness ==
    /\ Len(queue) = 1
    /\ queue[1] > 2
    /\ future[queue[1] - 1] = Rejected(CancelledMsg, 0)

\* C4: the future of an operation in flight stays pending whatever
\* enqueue() and clear() calls arrive, and a started operation's future is
\* settled only once its thunk has settled, with that thunk's outcome.
C4_InFlightNotInterrupted ==
    /\ [](\A i \in OpIds :
            /\ item = i => future[i] = Pending
            /\ (calls[i] > 0 /\ Settled(i)) =>
                  (run[i] = "settled" /\ future[i] = FutureOf(outcome[i])))
    /\ [][(item # 0 /\ (EnqueueStep \/ Clear)) =>
            /\ item' = item
            /\ run'[item] = run[item]
            /\ future'[item] = future[item]]_vars

\* Operation 1 still runs after an enqueue() that superseded operation 2
\* and a clear() that dropped operation 3.
C4_Witness ==
    /\ item = 1
    /\ run[1] = "running"
    /\ future[2].tag = CancelledMsg
    /\ future[3].tag = ClearedMsg

\* C5: once processQueue has handled a failed thunk, the future of that
\* thunk's operation is rejected with exactly the thunk's failure value,
\* and a future rejected with a thunk failure got its own thunk's failure.
C5_FailureRoutedToCaller ==
    \A i \in OpIds :
        /\ (run[i] = "settled" /\ outcome[i].tag = "failure" /\ item # i) =>
              future[i] = Rejected("failure", outcome[i].val)
        /\ future[i].tag = "failure" =>
              (outcome[i].tag = "failure" /\ future[i].val = outcome[i].val)

\* An asynchronous thunk failed and its caller was told; another succeeded.
C5_Witness ==
    \E i, j \in OpIds :
        /\ operation[i].mode = "async"
        /\ outcome[i].tag = "failure"
        /\ future[i].state = "rejected"
        /\ future[j].state = "fulfilled"
        /\ outcome[j].val # outcome[i].val

\* C6: a clear() call rejects every pending operation's future with
\* "Queue cleared", leaves queueLength = 0 and leaves the operation in
\* flight as it was.
C6_ClearRejectsPending ==
    [][Clear =>
          /\ \A k \in 1..Len(queue) : future'[queue[k]] = Rejected(ClearedMsg, 0)
          /\ Len(queue') = 0
          /\ item' = item
          /\ run' = run
          /\ outcome' = outcome
          /\ isProcessing' = isProcessing
          /\ item # 0 => future'[item] = future[item]]_vars

\* clear() dropped a pending operation while another one was running.
C6_Witness ==
    /\ item # 0
    /\ run[item] = "running"
    /\ future[item] = Pending
    /\ \E j \in OpIds : future[j] = Rejected(ClearedMsg, 0)

\* C7: an enqueue() made when every earlier future has settled invokes its
\* thunk at once, and the future of an operation whose thunk produced a
\* result is fulfilled with that result.
C7_IdleEnqueueRuns ==
    [][/\ (EnqueueStep /\ \A i \in OpIds : future[i].state # "pending") =>
            /\ calls'[nextId] = 1
            /\ operation'[nextId].mode = "async" =>
                  (item' = nextId /\ run'[nextId] = "running"
                                  /\ future'[nextId] = Pending)
       /\ \A i \in OpIds :
            (item = i /\ item' # i /\ outcome[i].tag = "value") =>
                future'[i] = Fulfilled(outcome[i].val)]_vars

\* Operation 1 threw inside its enqueue() call, so operation 2 was enqueued
\* on an idle queue; it ran and was fulfilled.
C7_Witness ==
    /\ operation[1].mode = "throw"
    /\ future[1].state = "rejected"
    /\ future[2].state = "fulfilled"

\* C8: provided every started thunk settles, every future returned by
\* enqueue() eventually settles.
C8_EveryFutureSettles ==
    \A i \in OpIds : (future[i].state = "pending") ~> Settled(i)

\* Three calls were made; all futures settled, one by supersession, one
\* by its thunk's result.
C8_Witness ==
    /\ nextId > 3
    /\ \A i \in 1..(nextId - 1) : Settled(i)
    /\ \E i, j \in OpIds : future[i].tag = CancelledMsg /\ future[j].state = "fulfilled"

\* C9: an operation rejected as Cancelled or Queue cleared never had its
\* thunk invoked; every settled operation was either discarded so or was
\* invoked once and settled with its thunk's outcome.
C9_DiscardedNeverRun ==
    \A i \in OpIds :
        /\ Discarded(i) =>
              (calls[i] = 0 /\ run[i] = "notStarted" /\ outcome[i] = NoOutcome)
        /\ Settled(i) =>
              \/ Discarded(i)
              \/ (calls[i] > 0 /\ run[i] = "settled" /\ future[i] = FutureOf(outcome[i]))

\* A superseded and a cleared operation exist and a later one was started.
C9_Witness ==
    \E i, j, k \in OpIds :
        /\ i < k /\ j < k
        /\ future[i].tag = CancelledMsg
        /\ future[j].tag = ClearedMsg
        /\ calls[k] = 1

\* C10: each thunk is invoked at most once and each future is settled at
\* most once.
C10_NoDoubleProcessing ==
    \A i \in OpIds : calls[i] <= 1 /\ settles[i] <= 1

\* Every call made has been processed: some executed, some discarded.
C10_Witness ==
    /\ nextId > MaxOps
    /\ \A i \in OpIds : settles[i] = 1
    /\ \E i, j \in OpIds : calls[i] = 1 /\ calls[j] = 0

\* C11: the enqueue() call that supersedes pending operations has itself
\* rejected their futures as Cancelled by the time it returns: the one
\* step settles them, with no thunk or continuation having advanced.
C11_CancelledOnReturn ==
    [][(EnqueueStep /\ Len(queue) > 0) =>
          /\ \A k \in 1..Len(queue) :
                /\ future[queue[k]] = Pending
                /\ future'[queue[k]] = Rejected(CancelledMsg, 0)
                /\ settles'[queue[k]] = settles[queue[k]] + 1
          /\ item' = item
          /\ outcome' = outcome
          /\ \A i \in OpIds : i # nextId => run'[i] = run[i]]_vars

\* Two operations in a row were superseded while operation 1 kept running.
C11_Witness ==
    /\ item = 1
    /\ run[1] = "running"
    /\ future[2] = Rejected(CancelledMsg, 0)
    /\ future[3] = Rejected(CancelledMsg, 0)
    /\ queue = <<4>>

\* C12: thunks start in enqueue order and an executed operation's future
\* is settled before any later thunk starts; an operation is superseded
\* before any later one is.
C12_EnqueueOrder ==
    \A a, b \in OpIds :
        (a < b) =>
            /\ calls[b] > 0 => (Settled(a) /\ ~InSeq(a, queue))
            /\ Discarded(b) => ~InSeq(a, queue)

\* Operations 1 and 3 both ran, in that order, and 2 was superseded.
C12_Witness ==
    /\ calls[1] = 1
    /\ future[1].tag \in {"value", "failure"}
    /\ future[2] = Rejected(CancelledMsg, 0)
    /\ calls[3] = 1
    /\ run[3] = "running"

\* C13: between calls the pending sequence holds at most one operation.
C13_AtMostOnePending == queueLength <= 1

\* One operation is pending behind the one in flight, after an earlier
\* pending one was cleared.
C13_Witness ==
    /\ queueLength = 1
    /\ item # 0
    /\ \E i \in OpIds : i < queue[1] /\ future[i] = Rejected(ClearedMsg, 0)

\* C14: a future rejected by a superseding enqueue() carries the Cancelled
\* message, one rejected by clear() the Queue cleared message, one rejected
\* for its thunk's failure that failure; an operation whose thunk was
\* started never gets either of the queue's own two messages.
C14_FailureKind ==
    /\ [](\A i \in OpIds : calls[i] > 0 => ~Discarded(i))
    /\ [][\A i \in OpIds :
            (future[i] = Pending /\ future'[i].state = "rejected") =>
                /\ (EnqueueStep /\ InSeq(i, queue)) => future'[i].tag = CancelledMsg
                /\ Clear => future'[i].tag = ClearedMsg
                /\ calls'[i] > 0 =>
                      /\ future'[i].tag = "failure"
                      /\ outcome'[i].tag = "failure"
                      /\ future'[i].val = outcome'[i].val]_vars

\* All three kinds of rejection have been delivered.
C14_Witness ==
    \E i, j, k \in OpIds :
        /\ future[i] = Rejected(CancelledMsg, 0)
        /\ future[j] = Rejected(ClearedMsg, 0)
        /\ future[k].state = "rejected"
        /\ future[k].tag = "failure"
        /\ operation[k].mode = "async"

\* C18: a read of queueLength or isProcessing returns the current value
\* and leaves the pending sequence, the active flag, the operation in
\* flight, every thunk and every future as they were.
C18_ReadsChangeNothing ==
    [][(ReadQueueLength \/ ReadIsProcessing) =>
          /\ UNCHANGED <<queue, isProcessing, item, operation, run, outcome,
                         future, calls, settles, nextId>>
          /\ observed'.get = "queueLength" => observed'.num = Len(queue)
          /\ observed'.get = "isProcessing" => observed'.flag = isProcessing]_vars

\* queueLength was read as 1 while an operation was in flight and one pending.
C18_Witness ==
    /\ observed = [get |-> "queueLength", num |-> 1, flag |-> FALSE]
    /\ item # 0
    /\ Len(queue) = 1

\* The content pixels of a raster, as (x, y) pairs.
Content(r) ==
    {xy \in (0..(r.width - 1)) \X (0..(r.height - 1)) :
        byte(r, (xy[2] * r.width + xy[1]) * 4 + 3) # 0}

\* C19: getMaskBounds returns null exactly when no pixel has nonzero
\* alpha; otherwise left/top are the least and right/bottom the greatest
\* x/y over the pixels of nonzero alpha, width = right - left + 1 and
\* height = bottom - top + 1.
C19_TightBounds ==
    geo.pc = "bounds" =>
        LET c == Content(geo.raster)
            b == geo.bounds
        IN  /\ b.found <=> c # {}
            /\ b.found =>
                  /\ \E xy \in c : xy[1] = b.left
                  /\ \E xy \in c : xy[1] = b.right
                  /\ \E xy \in c : xy[2] = b.top
                  /\ \E xy \in c : xy[2] = b.bottom
                  /\ \A xy \in c : /\ b.left <= xy[1] /\ xy[1] <= b.right
                                   /\ b.top <= xy[2] /\ xy[2] <= b.bottom
                  /\ b.width = b.right - b.left + 1
                  /\ b.height = b.bottom - b.top + 1

\* The bounds of the 10x10 mask with the one opaque pixel (5,5).
C19_Witness ==
    /\ geo.pc = "bounds"
    /\ geo.raster = SinglePixelMask
    /\ geo.bounds = [found |-> TRUE, left |-> 5, top |-> 5, right |-> 5,
                     bottom |-> 5, width |-> 1, height |-> 1]

\* The 100x100 raster with content bounds 10..20 was trimmed with padding 2.
C20_Case ==
    /\ geo.pc = "trimmed"
    /\ geo.raster = SquareRaster
    /\ geo.padding = 2

\* C20 as stated: that trim is 13x13, taken from (8,8).
C20_Trim13 ==
    C20_Case =>
        /\ geo.trimmed.canvas.width = 13
        /\ geo.trimmed.canvas.height = 13
        /\ geo.trimmed.sx = 8
        /\ geo.trimmed.sy = 8

\* C20, amended: that trim is 15x15 (the 11 content columns and rows plus
\* 2 of padding on either side), taken from (8,8).
C20_Trim15 ==
    C20_Case =>
        /\ geo.trimmed.canvas.width = 15
        /\ geo.trimmed.canvas.height = 15
        /\ Len(geo.trimmed.canvas.data) = 15 * 15 * 4
        /\ geo.trimmed.sx = 8
        /\ geo.trimmed.sy = 8
        /\ ~geo.trimmed.same

\* The case happened: the raster is 100x100 and its content pixels span
\* columns 10..20 and rows 10..20.
C20_Witness ==
    /\ C20_Case
    /\ geo.raster.width = 100
    /\ geo.raster.height = 100
    /\ Content(geo.raster) = (10..20) \X (10..20)


\* The session.segment invocations in progress for the mounted instance.
InProgress ==
    {i \in OpIds : run[i] = "running"} \cup {i \in OpIds : hook.direct[i] = Running}

\* C15: a request rejected as Cancelled because a newer request superseded
\* it is never reported through onError by the caller that awaited it.
C15_CancelledNotReported == \A i \in OpIds : hook.reported[i] # CancelledMsg

\* C16: for one hook instance no two session.segment invocations are in
\* progress at the same time.
C16_NoOverlap == Cardinality(InProgress) <= 1

\* C17: useMiniSam's addClick or segmentWithClicks called with no image or no
\* session ends with the 'No image loaded' error, enqueues nothing, and
\* leaves clicks, mask, isLoading and the session's click list unchanged.
C17_NoImageNoEnqueue ==
    [][(/\ hook.kind = "useMiniSam"
        /\ (~hook.image \/ ~hook.session)
        /\ (AddClick \/ SegmentWithClicksAny))
       => /\ hook'.result.err = NoImageMsg
          /\ hook'.result.by \in {"addClick", "segmentWithClicks"}
          /\ UNCHANGED <<queue, isProcessing, item, operation, run, outcome,
                         future, calls, settles, nextId>>
          /\ hook'.clicks = hook.clicks
          /\ hook'.mask = hook.mask
          /\ hook'.isLoading = hook.isLoading
          /\ hook'.sessionClicks = hook.sessionClicks
          /\ hook'.caller = hook.caller]_vars

\* addClick has thrown while loadImage had set the image but not yet created
\* the session, with the loading flag up.
C17_Witness ==
    /\ hook.kind = "useMiniSam"
    /\ hook.result = [by |-> "addClick", err |-> NoImageMsg, ret |-> "none"]
    /\ hook.image /\ ~hook.session /\ hook.isLoading
    /\ nextId = 1

\* C27: when processQueue resumes after a settled thunk, fulfilled or
\* failed, it starts the next pending operation if there is one and
\* otherwise clears the active flag; whenever no operation is in flight
\* isProcessing is false and queueLength is 0; an enqueue() made then
\* starts processing again.
C27_LoopGoesOn ==
    /\ [](item = 0 => (~isProcessing /\ queueLength = 0))
    /\ [][Resume =>
            /\ future'[item] = FutureOf(outcome[item])
            /\ Len(queue) > 0 =>
                  /\ calls'[Head(queue)] = calls[Head(queue)] + 1
                  /\ ~InSeq(Head(queue), queue')
                  /\ operation[Head(queue)].mode = "async" =>
                        (isProcessing' /\ item' = Head(queue))
            /\ Len(queue) = 0 => (~isProcessing' /\ item' = 0)]_vars
    /\ [][(EnqueueStep /\ item = 0) =>
            /\ calls'[nextId] = 1
            /\ operation'[nextId].mode = "async" =>
                  (isProcessing' /\ item' = nextId)]_vars

\* Operation 3 superseded operation 2 while operation 1 was in flight; the
\* thunk of 1 failed, and the loop went on to start 3.
C27_Witness ==
    /\ operation[1].mode = "async"
    /\ future[1].state = "rejected"
    /\ future[1].tag = "failure"
    /\ future[2] = Rejected(CancelledMsg, 0)
    /\ item = 3
    /\ run[3] = "running"

C29_LastIsServed ==
    /\ [](nextId > 1 => future[nextId - 1].tag # CancelledMsg)
    /\ \A i \in OpIds :
          (nextId = i + 1 /\ future[i] = Pending)
             ~> \/ nextId # i + 1
                \/ future[i] = Rejected(ClearedMsg, 0)
                \/ /\ calls[i] = 1
                   /\ run[i] = "settled"
                   /\ future[i] = FutureOf(outcome[i])

\* The last call allowed superseded operation 2 and, once operation 1 was
\* done, was executed and fulfilled.
C29_Witness ==
    /\ nextId = LiveOps + 1
    /\ future[LiveOps - 1] = Rejected(CancelledMsg, 0)
    /\ calls[LiveOps] = 1
    /\ future[LiveOps].state = "fulfilled"

\* C30: between calls, queueLength > 0 implies isProcessing.
C30_PendingOnlyWhileActive == queueLength > 0 => isProcessing

\* An operation is pending on an active queue that has already settled an
\* earlier operation with its result.
C30_Witness ==
    /\ queueLength = 1
    /\ isProcessing
    /\ \E i \in OpIds : future[i].state = "fulfilled"

MinOf(S) == CHOOSE m \in S : \A n \in S : m <= n
MaxOf(S) == CHOOSE m \in S : \A n \in S : n <= m

\* C21: for a raster with content and any padding, trimCanvasToContent
\* returns a new raster that is the region
\* [max(0, left - padding), min(W - 1, right + padding)] x
\* [max(0, top - padding), min(H - 1, bottom + padding)] of the input, left,
\* top, right, bottom being the tight content bounds; the region lies
\* inside the input, holds every content pixel, and each of its pixels
\* equals the input pixel at the same offset.
C21_TrimIsPaddedBox ==
    (geo.pc = "trimmed" /\ Content(geo.raster) # {}) =>
        LET r == geo.raster
            c == Content(r)
            xs == {xy[1] : xy \in c}
            ys == {xy[2] : xy \in c}
            l == Max(0, MinOf(xs) - geo.padding)
            rt == Min(r.width - 1, MaxOf(xs) + geo.padding)
            tp == Max(0, MinOf(ys) - geo.padding)
            bt == Min(r.height - 1, MaxOf(ys) + geo.padding)
            out == geo.trimmed.canvas
        IN  /\ ~geo.trimmed.same
            /\ geo.trimmed.sx = l
            /\ geo.trimmed.sy = tp
            /\ out.width = rt - l + 1
            /\ out.height = bt - tp + 1
            /\ Len(out.data) = out.width * out.height * 4
            /\ 0 <= l /\ l <= rt /\ rt <= r.width - 1
            /\ 0 <= tp /\ tp <= bt /\ bt <= r.height - 1
            /\ \A xy \in c : /\ l <= xy[1] /\ xy[1] <= rt
                             /\ tp <= xy[2] /\ xy[2] <= bt
            /\ \A x \in 0..(out.width - 1), y \in 0..(out.height - 1), ch \in 0..3 :
                  byte(out, (y * out.width + x) * 4 + ch)
                     = byte(r, ((tp + y) * r.width + l + x) * 4 + ch)

\* A raster 3 wide with content in column 0 only was trimmed with padding
\* 1: the box is clamped at the left edge and grows to column 1.
C21_Witness ==
    /\ geo.pc = "trimmed"
    /\ geo.padding = 1
    /\ geo.raster.width = 3
    /\ Content(geo.raster) # {}
    /\ \A xy \in Content(geo.raster) : xy[1] = 0
    /\ geo.trimmed.sx = 0
    /\ geo.trimmed.canvas.width = 2

\* C22: trimCanvasToContent of a raster whose pixels all have alpha 0
\* returns the input raster itself, whatever the padding.
C22_EmptyTrimIsInput ==
    (geo.pc = "trimmed" /\ Content(geo.raster) = {}) =>
        /\ geo.trimmed.same
        /\ geo.trimmed.canvas = geo.raster

\* A fully transparent 3x2 raster was trimmed with padding 2.
C22_Witness ==
    /\ geo.pc = "trimmed"
    /\ geo.padding = 2
    /\ geo.raster.width = 3
    /\ geo.raster.height = 2
    /\ Content(geo.raster) = {}
    /\ geo.trimmed.same

\* The mask alpha that applyMaskToImage read for destination pixel (x, y).
MappedAlpha(x, y) ==
    at(geo.raster, (geo.applied.maskY[y + 1] * geo.raster.width
                      + geo.applied.maskX[x + 1]) * 4 + 3)

\* C23: applyMaskToImage is a binary cutout: a destination pixel whose
\* mapped mask pixel has alpha 0 gets alpha 0 and keeps the R, G, B drawn
\* from the image; one whose mapped mask pixel has any nonzero alpha keeps
\* all four bytes drawn from the image.
C23_BinaryCutout ==
    geo.pc = "applied" =>
        LET img == geo.image
            out == geo.applied.masked
        IN  /\ out.width = img.width
            /\ out.height = img.height
            /\ \A x \in 0..(img.width - 1), y \in 0..(img.height - 1) :
                  LET i == (y * img.width + x) * 4
                  IN  /\ \A c \in 0..2 : byte(out, i + c) = byte(img, i + c)
                      /\ byte(out, i + 3) =
                            IF MappedAlpha(x, y) = 0 THEN 0 ELSE byte(img, i + 3)

\* An opaque image pixel kept its alpha 255 under a mask pixel of alpha
\* 128, and another was cut out under a mask pixel of alpha 0.
C23_Witness ==
    /\ geo.pc = "applied"
    /\ \E x \in 0..(geo.image.width - 1), y \in 0..(geo.image.height - 1) :
          /\ MappedAlpha(x, y) = 128
          /\ byte(geo.image, (y * geo.image.width + x) * 4 + 3) = 255
          /\ byte(geo.applied.masked, (y * geo.image.width + x) * 4 + 3) = 255
    /\ \E x \in 0..(geo.image.width - 1), y \in 0..(geo.image.height - 1) :
          /\ MappedAlpha(x, y) = 0
          /\ byte(geo.image, (y * geo.image.width + x) * 4 + 3) = 255
          /\ byte(geo.applied.masked, (y * geo.image.width + x) * 4 + 3) = 0

\* C24: applyMaskToImage maps destination pixel (x, y) to mask pixel
\* (floor(x * mask.width / image.width), floor(y * mask.height /
\* image.height)), which lies inside the mask.
C24_MaskCoordinates ==
    geo.pc = "applied" =>
        /\ \A x \in 0..(geo.image.width - 1) :
              /\ geo.applied.maskX[x + 1] = (x * geo.raster.width) \div geo.image.width
              /\ 0 <= geo.applied.maskX[x + 1]
              /\ geo.applied.maskX[x + 1] < geo.raster.width
        /\ \A y \in 0..(geo.image.height - 1) :
              /\ geo.applied.maskY[y + 1] = (y * geo.raster.height) \div geo.image.height
              /\ 0 <= geo.applied.maskY[y + 1]
              /\ geo.applied.maskY[y + 1] < geo.raster.height

\* C25: the overlay has the mask's size; a pixel of nonzero mask alpha has
\* the colour's R, G, B and the mask's alpha, a pixel of mask alpha 0 is
\* four zero bytes.
C25_Overlay ==
    geo.pc = "overlay" =>
        LET m == geo.raster
            o == geo.overlay
        IN  /\ o.width = m.width
            /\ o.height = m.height
            /\ Len(o.data) = m.width * m.height * 4
            /\ \A p \in 0..(m.width * m.height - 1) :
                  IF byte(m, 4 * p + 3) # 0
                  THEN /\ byte(o, 4 * p) = geo.color.r
                       /\ byte(o, 4 * p + 1) = geo.color.g
                       /\ byte(o, 4 * p + 2) = geo.color.b
                       /\ byte(o, 4 * p + 3) = byte(m, 4 * p + 3)
                  ELSE \A c \in 0..3 : byte(o, 4 * p + c) = 0

\* The overlay of a mask with a pixel of alpha 128, one of alpha 255 and
\* one of alpha 0, in the default colour.
C25_Witness ==
    /\ geo.pc = "overlay"
    /\ geo.color = [r |-> 99, g |-> 102, b |-> 241]
    /\ \E p, q, s \in 0..(geo.raster.width * geo.raster.height - 1) :
          /\ byte(geo.raster, 4 * p + 3) = 128 /\ byte(geo.overlay, 4 * p + 3) = 128
          /\ byte(geo.raster, 4 * q + 3) = 255 /\ byte(geo.overlay, 4 * q) = 99
          /\ byte(geo.raster, 4 * s + 3) = 0 /\ byte(geo.overlay, 4 * s) = 0

\* C26: a step that is a call of getMaskBounds, of applyMaskToImage or of
\* the overlay loop leaves the mask it is given as it was: same width,
\* height and data.
C26_MaskNotModified ==
    [][(geo'.pc # geo.pc /\ geo'.pc \in {"bounds", "applied", "overlay"}) =>
          /\ geo'.raster = geo.raster
          /\ geo'.pc = "applied" => geo'.applied.mask = geo.raster]_vars

\* An overlay that differs from its mask was drawn, and the mask is still
\* the raster the caller made.
C26_Witness ==
    /\ geo.pc = "overlay"
    /\ Content(geo.raster) # {}
    /\ geo.overlay # geo.raster
    /\ geo.raster = MakeRaster(geo.raster.width, geo.raster.height,
                               {xy[2] * geo.raster.width + xy[1] :
                                   xy \in Content(geo.raster)})

\* The operations in flight: thunk started, future not yet settled.
InFlight == {i \in OpIds : calls[i] > 0 /\ future[i] = Pending}

\* C31: between calls isProcessing is true exactly when one operation is
\* in flight, and never more than one is; clear() leaves isProcessing as
\* it was.
C31_ActiveIffInFlight ==
    /\ [](isProcessing <=> Cardinality(InFlight) = 1)
    /\ [](Cardinality(InFlight) <= 1)
    /\ [][Clear => isProcessing' = isProcessing]_vars

\* A clear() dropped a pending operation while the thunk in flight had
\* settled and its continuation had not yet run: the flag is still up.
C31_Witness ==
    /\ isProcessing
    /\ item # 0
    /\ run[item] = "settled"
    /\ InFlight = {item}
    /\ \E j \in OpIds : future[j] = Rejected(ClearedMsg, 0)

\* C32: after reset() on useMiniSam, clicks is empty and mask is null for
\* as long as reset() is the last call made, also when a segmentation was
\* in flight or pending when reset() was called.
C32_ResetHolds ==
    (hook.kind = "useMiniSam" /\ hook.result.by = "reset")
        => (hook.clicks = 0 /\ hook.mask = 0)

\* C33: in useMiniSam isLoading is true whenever a segmentation that
\* addClick issued is pending or in flight on the queue, also after an
\* earlier request of the burst was rejected as Cancelled.
C33_LoadingWhilePending ==
    (/\ hook.kind = "useMiniSam"
     /\ hook.result.by = "addClick"
     /\ \E i \in OpIds : future[i] = Pending)
        => hook.isLoading

\* The segmentation enqueued last.
LastOp == nextId - 1

C35_ClicksMatchSession ==
    (hook.kind = "useMiniSam" /\ hook.session /\ ~hook.loading)
        => hook.clicks = hook.sessionClicks

\* C36: initialize() called while an initialization is in progress returns
\* the stored promise and starts nothing; a failed initialization clears the
\* stored promise and a later call starts a new attempt; after a success
\* initialize() changes nothing.
C36_SingleFlight ==
    /\ [][Initialize =>
            /\ hook.initializing =>
                  /\ hook'.result.ret = "stored"
                  /\ hook' = [hook EXCEPT !.result = hook'.result]
            /\ hook.isInitialized =>
                  /\ hook'.result.ret = "none"
                  /\ hook' = [hook EXCEPT !.result = hook'.result]
            /\ (~hook.initializing /\ ~hook.isInitialized) =>
                  /\ hook'.result.ret = "started"
                  /\ hook'.initializing]_vars
    /\ [][InitializeEnd(FALSE) =>
            (~hook'.initializing /\ ~hook'.isInitialized)]_vars
    /\ [](hook.isInitialized => ~hook.initializing)

\* initialize() was called again while the attempt of the mount was in
\* progress.
C36_Witness ==
    /\ hook.kind = "useMiniSam"
    /\ hook.initializing
    /\ hook.isLoading
    /\ hook.result = [by |-> "initialize", err |-> "none", ret |-> "stored"]

\* C37: removeLastClick with exactly one click and segmentWithClicks with
\* an empty list, on a useMiniSam with an image, enqueue nothing and leave
\* no click and a null mask.
C37_EmptyClicksNoSegment ==
    [][(/\ hook.kind = "useMiniSam"
        /\ hook.image /\ hook.session
        /\ \/ hook.clicks = 1 /\ RemoveLastClick
           \/ SegmentWithClicks(0))
       => /\ hook'.clicks = 0
          /\ hook'.mask = 0
          /\ hook'.isLoading = hook.isLoading
          /\ hook'.caller = hook.caller
          /\ UNCHANGED <<queue, isProcessing, item, operation, run, outcome,
                         future, calls, settles, nextId>>]_vars

\* The only click was undone after its segmentation had given a mask.
C37_Witness ==
    /\ hook.kind = "useMiniSam"
    /\ hook.result.by = "removeLastClick"
    /\ hook.clicks = 0
    /\ hook.mask = 0
    /\ nextId = 2
    /\ future[1].state = "fulfilled"
    /\ hook.caller[1] = "done"

\* C38: the top, left, right and bottom that the scan of
\* trimCanvasToContent leaves are the bounds getMaskBounds returns for the
\* same pixels, and the one finds no content exactly when the other does.
C38_SameBounds ==
    geo.pc = "trimmed" =>
        LET b == geo.trimmed.bound
            m == getMaskBounds(geo.raster)
        IN  /\ geo.trimmed.same <=> ~m.found
            /\ geo.trimmed.same => b = NullBound
            /\ m.found => /\ b.left = m.left
                           /\ b.top = m.top
                           /\ b.right = m.right
                           /\ b.bottom = m.bottom

\* Content away from the left and top edges, more than one pixel of it.
C38_Witness ==
    /\ geo.pc = "trimmed"
    /\ geo.trimmed.bound.left > 0
    /\ geo.trimmed.bound.top > 0
    /\ geo.trimmed.bound.right > geo.trimmed.bound.left
    /\ getMaskBounds(geo.raster).found

\* C39: trimming the result of a padding-0 trim again, with padding 0,
\* gives a raster of the same size and pixels.
C39_TrimIdempotent ==
    (geo.pc = "retrimmed" /\ geo.padding = 0) =>
        /\ geo.again.canvas.width = geo.trimmed.canvas.width
        /\ geo.again.canvas.height = geo.trimmed.canvas.height
        /\ geo.again.canvas.data = geo.trimmed.canvas.data

\* A raster that the first trim made smaller and the second trim copied
\* whole.
C39_Witness ==
    /\ geo.pc = "retrimmed"
    /\ geo.padding = 0
    /\ ~geo.trimmed.same
    /\ ~geo.again.same
    /\ geo.trimmed.canvas.width < geo.raster.width
    /\ geo.trimmed.canvas.height < geo.raster.height
    /\ geo.again.sx = 0 /\ geo.again.sy = 0

====
